---- MODULE Spec2Model ----
(***************************************************************************)
(* State-machine model of the real-time log console                        *)
(* (src/src/components/console.tsx, ServiceConsole).                        *)
(*                                                                         *)
(* One console instance: its React state (history, socketBlocked), its     *)
(* refs (hasFetchedLogsRef, socketRef), the async chains started by the    *)
(* runs of the mount effect (cachedLogLines().then(initializeSocket)),     *)
(* and the WebSockets those chains construct.  Every await of the source   *)
(* is a suspension point: the code up to the next await is one action.     *)
(* Strings the code inspects (cookie address, page origin) are sequences   *)
(* of one-character strings.                                               *)
(***************************************************************************)
EXTENDS Naturals, Integers, Sequences, FiniteSets, TLC

\* ------------------------------------------------------------------ bounds
\* Number of times the mount effect may run (mount + dependency changes).
MaxRuns == 2
\* Number of text frames the remote side pushes over all sockets.
MaxSent == 2
\* Number of entries of a buffer the panel starts from.
MaxLines == 2
\* Number of times the operator submits the command form.
MaxCmds == 2
\* Number of network requests the server-side helper performs.
MaxCalls == 2

\* ----------------------------------------------------------------- strings
\* String.prototype.startsWith
StartsWith(s, p) ==
  /\ Len(s) >= Len(p)
  /\ SubSeq(s, 1, Len(p)) = p

Https == <<"h", "t", "t", "p", "s">>
HttpPrefix == <<"h", "t", "t", "p", ":", "/", "/">>
HttpsPrefix == <<"h", "t", "t", "p", "s", ":", "/", "/">>

\* The two percent escapes the session address uses; any other escape is
\* treated as malformed input of decodeURIComponent (URIError).
HexPairs == {<<"3", "A">>, <<"2", "F">>}
Unescape(pair) == IF pair = <<"3", "A">> THEN ":" ELSE "/"

\* decodeURIComponent accepts s
RECURSIVE WellFormed(_)
WellFormed(s) ==
  IF s = <<>> THEN TRUE
  ELSE IF Head(s) = "%"
       THEN /\ Len(s) >= 3
            /\ SubSeq(s, 2, 3) \in HexPairs
            /\ WellFormed(SubSeq(s, 4, Len(s)))
       ELSE WellFormed(Tail(s))

\* decodeURIComponent(s), for well-formed s
RECURSIVE DecodeURIComponent(_)
DecodeURIComponent(s) ==
  IF s = <<>> THEN <<>>
  ELSE IF Head(s) = "%"
       THEN <<Unescape(SubSeq(s, 2, 3))>> \o DecodeURIComponent(SubSeq(s, 4, Len(s)))
       ELSE <<Head(s)>> \o DecodeURIComponent(Tail(s))

\* cookieAddress.replace(/^(http:\/\/|https:\/\/)/, '')
StripScheme(a) ==
  IF StartsWith(a, HttpPrefix) THEN SubSeq(a, Len(HttpPrefix) + 1, Len(a))
  ELSE IF StartsWith(a, HttpsPrefix) THEN SubSeq(a, Len(HttpsPrefix) + 1, Len(a))
  ELSE a

\* cookieAddress.startsWith('https') ? 'wss' : 'ws'
SocketProtocol(a) == IF StartsWith(a, Https) THEN "wss" ELSE "ws"

\* String.prototype.toLowerCase, on the letters of the basic Latin alphabet.
UpperCase ==
  << "A", "B", "C", "D", "E", "F", "G", "H", "I", "J", "K", "L", "M",
     "N", "O", "P", "Q", "R", "S", "T", "U", "V", "W", "X", "Y", "Z" >>
LowerCase ==
  << "a", "b", "c", "d", "e", "f", "g", "h", "i", "j", "k", "l", "m",
     "n", "o", "p", "q", "r", "s", "t", "u", "v", "w", "x", "y", "z" >>
LowerChar(c) ==
  IF \E i \in 1..26 : UpperCase[i] = c
  THEN LowerCase[CHOOSE i \in 1..26 : UpperCase[i] = c]
  ELSE c
ToLowerCase(s) == [i \in 1..Len(s) |-> LowerChar(s[i])]

\* String.prototype.includes
Includes(s, sub) ==
  \E i \in 0..(Len(s) - Len(sub)) : SubSeq(s, i + 1, i + Len(sub)) = sub

\* Array.prototype.join
RECURSIVE Join(_, _)
Join(parts, sep) ==
  IF parts = <<>> THEN <<>>
  ELSE IF Len(parts) = 1 THEN parts[1]
  ELSE parts[1] \o sep \o Join(Tail(parts), sep)

\* White space String.prototype.trim removes (the characters used here).
WhiteSpace == {" ", "\t", "\n"}

\* String.prototype.trim
RECURSIVE Trim(_)
Trim(s) ==
  IF s = <<>> THEN <<>>
  ELSE IF Head(s) \in WhiteSpace THEN Trim(Tail(s))
  ELSE IF s[Len(s)] \in WhiteSpace THEN Trim(SubSeq(s, 1, Len(s) - 1))
  ELSE s

\* A guard that blocks only an insecure endpoint on a secure page.
GuardBlocksInsecureOnly(protocol, domainUrlProtocol) ==
  ~(domainUrlProtocol = "wss" /\ protocol = "ws")

\* The guard of initializeSocket: the socket is attempted only when the
\* endpoint's protocol equals the one derived from the page origin.
GuardApproves(protocol, domainUrlProtocol) == protocol = domainUrlProtocol

\* ------------------------------------------------------------------ inputs
\* Values of cookies['add'] (url-encoded), as the address lookup returns them.
CookieHttps ==
  <<"h", "t", "t", "p", "s", "%", "3", "A", "%", "2", "F", "%", "2", "F", "n">>
CookieHttp ==
  <<"h", "t", "t", "p", "%", "3", "A", "%", "2", "F", "%", "2", "F", "n">>
CookieMalformed == <<"n", "%">>
Cookies == {CookieHttps, CookieHttp, CookieMalformed}

\* window.location.origin
OriginHttps == <<"h", "t", "t", "p", "s", ":", "/", "/", "p">>
OriginHttp == <<"h", "t", "t", "p", ":", "/", "/", "p">>
Origins == {OriginHttps, OriginHttp}

\* Raw text frames: the k-th frame the remote side pushes is a level word
\* followed by the digit k, so that frames are pairwise distinct.
Digits == <<"1", "2", "3", "4", "5", "6", "7", "8", "9">>
LevelWords == << <<"I", "N", "F", "O">>, <<"w", "a", "r", "n">>, <<"E", "r", "r", "o", "r">> >>
FrameText(k) == LevelWords[(k % 3) + 1] \o <<Digits[k]>>

\* Cached tails the logLines request may return.
CachedA == <<"E", "R", "R", "O", "R", "a">>
CachedB == <<"i", "n", "f", "o", "b">>
CacheTails == {<<>>, <<CachedA>>, <<CachedA, CachedB>>}

\* Props of the component: type and serviceName (absent = empty string): a
\* service console and a node console.
Props ==
  { [type |-> "service", serviceName |-> "svc"],
    [type |-> "node", serviceName |-> ""] }

\* Buffer contents the panel is exercised on: up to MaxLines log lines.
LogLines == {CachedA, FrameText(1), FrameText(2)}
Buffers == UNION { [1..n -> LogLines] : n \in 0..MaxLines }

\* The values of the level filter (the items of the Select).
FilterAll == <<"A", "L", "L">>
FilterInfo == <<"I", "N", "F", "O">>
FilterWarn == <<"W", "A", "R", "N">>
FilterError == <<"E", "R", "R", "O", "R">>
Filters == {FilterAll, FilterInfo, FilterWarn, FilterError}

\* Texts the operator types into the command field.
CommandTexts == {<<>>, <<" ", "\t">>, <<" ", "l", "s", " ">>}

\* Session cookies of a server-side request: each of 'at' (bearer credential)
\* and 'add' (url-encoded endpoint address) is missing, empty, or set.
Token == <<"j", "w", "t">>
CookieNames == {"at", "add"}
CookieValues(name) ==
  IF name = "at" THEN {<<>>, Token} ELSE {<<>>, CookieHttp, CookieHttps, CookieMalformed}
Jars ==
  UNION { { j \in [D -> {<<>>, Token, CookieHttp, CookieHttps, CookieMalformed}] :
              \A n \in D : j[n] \in CookieValues(n) } : D \in SUBSET CookieNames }
SessionJar == [n \in CookieNames |-> IF n = "at" THEN Token ELSE CookieHttps]

\* ------------------------------------------------------------------- state
VARIABLES
  phase,              \* "init" (rendered, effect not yet run), "mounted", "unmounted"
  props,              \* the component's props
  origin,             \* window.location.origin
  history,            \* useState<ConsoleEntry[]>: the log buffer
  socketBlocked,      \* useState(false): the protocol-mismatch alert
  hasFetchedLogsRef,  \* useRef(false)
  socketRef,          \* useRef<WebSocket | null>: 0 is null, else index in sockets
  runs,               \* per effect run: the async chain cachedLogLines().then(initializeSocket)
  nRuns,              \* number of effect runs so far
  sockets,            \* every WebSocket constructed, in construction order
  sent,               \* number of frames the remote side has pushed
  justCleared,        \* the last step was the clear button (history variable)
  filter,             \* useState<string>('ALL'): the level filter of the view
  input,              \* useState(''): the text of the command field
  submits,            \* number of times handleSubmit has been invoked
  executes,           \* serviceApi.execute calls issued, in order, with their status
  exported,           \* files produced by downloadLogs: <<>> or <<text of the latest>>
  jar,                \* server side: the session cookies of the request ('at', 'add')
  apiResult,          \* server side: outcome of the latest serverApiPost / serverApiGet
  fetched             \* server side: the network requests performed, in order

\* The console's connection and buffer.
consoleVars ==
  << phase, props, origin, history, socketBlocked, hasFetchedLogsRef, socketRef,
     runs, nRuns, sockets, sent, justCleared >>

\* The operator's panel: filter, command field, commands, downloads.
panelVars == << filter, input, submits, executes, exported >>

\* The server-side api helper.
serverVars == << jar, apiResult, fetched >>

vars == << consoleVars, panelVars, serverVars >>

RunIds == 1..MaxRuns

\* A chain that has not started.
IdleRun ==
  [ pc |-> "idle",        \* "idle", "fetch", "ticket", "cookies", "done"
    fetch |-> "none",     \* cached-tail request: "none", "pending", "ok", "failed"
    connect |-> FALSE,    \* initializeSocket has been invoked by this chain
    tickets |-> 0,        \* ticket requests issued by this chain
    ticket |-> <<>>,      \* const ticket (<<>>: not yet assigned)
    cookie |-> <<>>,      \* cookies['add'] as read by this chain
    guard |-> "none",     \* result of the protocol check: "none", "allowed", "blocked"
    sock |-> 0,           \* socket constructed by this chain (0: none)
    outcome |-> "none" ]  \* "none", "noop", "blocked", "errored", "opened"

Mounted == phase = "mounted"

\* A state setter called on an unmounted component changes nothing.
SetState(old, new) == IF Mounted THEN new ELSE old

\* The console after construction: the useState / useRef initial values.
InitConsole ==
  /\ phase = "init"
  /\ props \in Props
  /\ origin \in Origins
  /\ history = <<>>
  /\ socketBlocked = FALSE
  /\ hasFetchedLogsRef = FALSE
  /\ socketRef = 0
  /\ runs = [r \in RunIds |-> IdleRun]
  /\ nRuns = 0
  /\ sockets = <<>>
  /\ sent = 0
  /\ justCleared = FALSE

\* The panel after construction: filter 'ALL', empty command field.
InitPanel ==
  /\ filter = FilterAll
  /\ input = <<>>
  /\ submits = 0
  /\ executes = <<>>
  /\ exported = <<>>

\* The server-side helper before any call, for a request carrying cookies j.
InitServer(j) ==
  /\ jar = j
  /\ apiResult = [call |-> "none", outcome |-> "none"]
  /\ fetched = <<>>

Init ==
  /\ InitConsole
  /\ InitPanel
  /\ InitServer(SessionJar)

\* ------------------------------------------------------- initializeSocket
\* An entry check that lets a call through once the stored socket is closed.
BeginUnlessSocketLive(rec) ==
  IF socketRef # 0 /\ sockets[socketRef].state # "closed"
  THEN [rec EXCEPT !.connect = TRUE, !.pc = "done", !.outcome = "noop"]
  ELSE [rec EXCEPT !.connect = TRUE, !.pc = "ticket", !.tickets = @ + 1]

\* Entry of initializeSocket up to `await authApi.createTicket(type)`.
BeginInitializeSocket(rec) ==
  IF socketRef # 0
  THEN [rec EXCEPT !.connect = TRUE, !.pc = "done", !.outcome = "noop"]
  ELSE [rec EXCEPT !.connect = TRUE, !.pc = "ticket", !.tickets = @ + 1]

\* A ticket kept from the first chain and reused by later ones.
TicketOfFirstChain(r) == runs[1].ticket

\* The ticket put into the socket url by chain r: its own const ticket.
TicketForUrl(r) == runs[r].ticket

\* `${protocol}://${address}${webSocketPath}?ticket=${ticket}`
SocketUrl(r, cookieAddress) ==
  [ protocol |-> SocketProtocol(cookieAddress),
    address |-> StripScheme(cookieAddress),
    ticket |-> TicketForUrl(r) ]

\* new WebSocket(socketUrl) with onmessage and onerror assigned.
NewSocket(r, cookieAddress) ==
  [ state |-> "connecting",   \* readyState: "connecting", "open", "closing", "closed"
    url |-> SocketUrl(r, cookieAddress),
    run |-> r,
    queue |-> <<>>,           \* frames received, message events not yet dispatched
    erred |-> FALSE ]         \* an error event has fired

\* The outer catch of initializeSocket.
CatchInitialization(r) ==
  /\ runs' = [runs EXCEPT ![r].pc = "done", ![r].outcome = "errored"]
  /\ socketBlocked' = SetState(socketBlocked, TRUE)

\* The ticket endpoint answers every request with a ticket it has not issued
\* before: the ticket answering the k-th request of chain r.
IssuedTicket(r, k) == <<r, k>>

\* createTicket resolves: ticket assigned, getCookies requested.
TicketOk(r) ==
  /\ runs[r].pc = "ticket"
  /\ runs' = [runs EXCEPT ![r].pc = "cookies",
                          ![r].ticket = IssuedTicket(r, runs[r].tickets)]
  /\ justCleared' = FALSE
  /\ UNCHANGED << phase, props, origin, history, socketBlocked, hasFetchedLogsRef,
                  socketRef, nRuns, sockets, sent,
                  panelVars, serverVars >>

\* createTicket rejects.
TicketFail(r) ==
  /\ runs[r].pc = "ticket"
  /\ CatchInitialization(r)
  /\ justCleared' = FALSE
  /\ UNCHANGED << phase, props, origin, history, hasFetchedLogsRef, socketRef,
                  nRuns, sockets, sent,
                  panelVars, serverVars >>

\* getCookies rejects.
CookiesFail(r) ==
  /\ runs[r].pc = "cookies"
  /\ CatchInitialization(r)
  /\ justCleared' = FALSE
  /\ UNCHANGED << phase, props, origin, history, hasFetchedLogsRef, socketRef,
                  nRuns, sockets, sent,
                  panelVars, serverVars >>

\* getCookies resolves with an address decodeURIComponent rejects (URIError).
CookiesMalformed(r, c) ==
  /\ runs[r].pc = "cookies"
  /\ ~WellFormed(c)
  /\ runs' = [runs EXCEPT ![r].pc = "done", ![r].outcome = "errored"]
  /\ socketBlocked' = SetState(socketBlocked, TRUE)
  /\ justCleared' = FALSE
  /\ UNCHANGED << phase, props, origin, history, hasFetchedLogsRef, socketRef,
                  nRuns, sockets, sent,
                  panelVars, serverVars >>

\* getCookies resolves and the protocols differ: setSocketBlocked(true); return.
GuardBlocks(r, c) ==
  /\ runs[r].pc = "cookies"
  /\ WellFormed(c)
  /\ ~GuardApproves(SocketProtocol(DecodeURIComponent(c)), SocketProtocol(origin))
  /\ runs' = [runs EXCEPT ![r].pc = "done", ![r].outcome = "blocked",
                          ![r].cookie = c, ![r].guard = "blocked"]
  /\ socketBlocked' = SetState(socketBlocked, TRUE)
  /\ justCleared' = FALSE
  /\ UNCHANGED << phase, props, origin, history, hasFetchedLogsRef, socketRef,
                  nRuns, sockets, sent,
                  panelVars, serverVars >>

\* The guard passes and new WebSocket(socketUrl) throws.
ConstructionThrows(r, c) ==
  /\ runs[r].pc = "cookies"
  /\ WellFormed(c)
  /\ GuardApproves(SocketProtocol(DecodeURIComponent(c)), SocketProtocol(origin))
  /\ runs' = [runs EXCEPT ![r].pc = "done", ![r].outcome = "errored",
                          ![r].cookie = c, ![r].guard = "allowed"]
  /\ socketBlocked' = SetState(socketBlocked, TRUE)
  /\ justCleared' = FALSE
  /\ UNCHANGED << phase, props, origin, history, hasFetchedLogsRef, socketRef,
                  nRuns, sockets, sent,
                  panelVars, serverVars >>

\* The guard passes and the socket is constructed and stored in socketRef.
SocketConstructed(r, c) ==
  /\ runs[r].pc = "cookies"
  /\ WellFormed(c)
  /\ GuardApproves(SocketProtocol(DecodeURIComponent(c)), SocketProtocol(origin))
  /\ sockets' = Append(sockets, NewSocket(r, DecodeURIComponent(c)))
  /\ socketRef' = Len(sockets) + 1
  /\ runs' = [runs EXCEPT ![r].pc = "done", ![r].outcome = "opened",
                          ![r].cookie = c, ![r].guard = "allowed",
                          ![r].sock = Len(sockets) + 1]
  /\ justCleared' = FALSE
  /\ UNCHANGED << phase, props, origin, history, socketBlocked, hasFetchedLogsRef,
                  nRuns, sent,
                  panelVars, serverVars >>

\* ------------------------------------------------------------ mount effect
\* A cachedLogLines whose failure escapes, so that .then never runs.
FetchRejectionEscapes(rec) == [rec EXCEPT !.fetch = "failed", !.pc = "done"]

\* After a failed cached-tail request (the catch of cachedLogLines) the chain
\* goes on to .then(initializeSocket).
OnFetchRejected(rec) == BeginInitializeSocket([rec EXCEPT !.fetch = "failed"])

\* After a successful cached-tail request the chain goes on to
\* .then(initializeSocket).
OnFetchResolved(rec) == BeginInitializeSocket([rec EXCEPT !.fetch = "ok"])

\* The effect body for run r: cachedLogLines() up to its first await, and,
\* when it returns without awaiting, the .then(initializeSocket) microtask.
RunEffect(r) ==
  IF hasFetchedLogsRef
  THEN /\ runs' = [runs EXCEPT ![r] = BeginInitializeSocket(@)]
       /\ UNCHANGED hasFetchedLogsRef
  ELSE /\ hasFetchedLogsRef' = TRUE
       /\ IF props.type = "service" /\ props.serviceName # ""
          THEN runs' = [runs EXCEPT ![r].pc = "fetch", ![r].fetch = "pending"]
          ELSE runs' = [runs EXCEPT ![r] = BeginInitializeSocket(@)]

\* WebSocket.close(): a socket not yet closed starts its closing handshake.
CloseSocket(sock) ==
  IF sock.state \in {"connecting", "open"}
  THEN [sock EXCEPT !.state = "closing"]
  ELSE sock

\* The sockets after the effect cleanup: if (socketRef.current) socketRef.current.close()
Cleanup ==
  IF socketRef # 0
  THEN [sockets EXCEPT ![socketRef] = CloseSocket(@)]
  ELSE sockets

\* First run of the effect, after the first render.
Mount ==
  /\ phase = "init"
  /\ phase' = "mounted"
  /\ nRuns' = 1
  /\ RunEffect(1)
  /\ justCleared' = FALSE
  /\ UNCHANGED << props, origin, history, socketBlocked, socketRef, sockets,
                  sent,
                  panelVars, serverVars >>

\* A dependency of the effect changes: cleanup of the previous run, then the
\* effect body again.
DepsChange ==
  /\ Mounted
  /\ nRuns < MaxRuns
  /\ sockets' = Cleanup
  /\ nRuns' = nRuns + 1
  /\ RunEffect(nRuns + 1)
  /\ justCleared' = FALSE
  /\ UNCHANGED << phase, props, origin, history, socketBlocked, socketRef,
                  sent,
                  panelVars, serverVars >>

\* The component unmounts: cleanup of the last run.
Unmount ==
  /\ Mounted
  /\ phase' = "unmounted"
  /\ sockets' = Cleanup
  /\ justCleared' = FALSE
  /\ UNCHANGED << props, origin, history, socketBlocked, hasFetchedLogsRef,
                  socketRef, runs, nRuns, sent,
                  panelVars, serverVars >>

\* serviceApi.logLines resolves: setHistory(cache.lines...), then initializeSocket.
FetchOk(r, tail) ==
  /\ runs[r].pc = "fetch"
  /\ history' = SetState(history, tail)
  /\ runs' = [runs EXCEPT ![r] = OnFetchResolved(@)]
  /\ justCleared' = FALSE
  /\ UNCHANGED << phase, props, origin, socketBlocked, hasFetchedLogsRef, socketRef,
                  nRuns, sockets, sent,
                  panelVars, serverVars >>

\* serviceApi.logLines rejects: toast, then initializeSocket.
FetchFail(r) ==
  /\ runs[r].pc = "fetch"
  /\ runs' = [runs EXCEPT ![r] = OnFetchRejected(@)]
  /\ justCleared' = FALSE
  /\ UNCHANGED << phase, props, origin, history, socketBlocked, hasFetchedLogsRef,
                  socketRef, nRuns, sockets, sent,
                  panelVars, serverVars >>

\* ------------------------------------------------------------------ socket
SocketIds == 1..Len(sockets)

\* The connection is established (open event; no handler is registered).
SocketOpens(s) ==
  /\ sockets[s].state = "connecting"
  /\ sockets' = [sockets EXCEPT ![s].state = "open"]
  /\ justCleared' = FALSE
  /\ UNCHANGED << phase, props, origin, history, socketBlocked, hasFetchedLogsRef,
                  socketRef, runs, nRuns, sent,
                  panelVars, serverVars >>

\* The remote side pushes a text frame; its message event is queued.
ServerSend(s) ==
  /\ sockets[s].state = "open"
  /\ sent < MaxSent
  /\ sent' = sent + 1
  /\ sockets' = [sockets EXCEPT ![s].queue = Append(@, FrameText(sent + 1))]
  /\ justCleared' = FALSE
  /\ UNCHANGED << phase, props, origin, history, socketBlocked, hasFetchedLogsRef,
                  socketRef, runs, nRuns,
                  panelVars, serverVars >>

\* onmessage: setHistory((prev) => [...prev, newEntry])
OnMessage(prev, data) == Append(prev, data)

\* The oldest queued message event of socket s is dispatched.  A socket whose
\* readyState is no longer open fires no message event.
Deliver(s) ==
  /\ sockets[s].queue # <<>>
  /\ sockets' = [sockets EXCEPT ![s].queue = Tail(@)]
  /\ history' = IF sockets[s].state = "open"
                THEN SetState(history, OnMessage(history, Head(sockets[s].queue)))
                ELSE history
  /\ justCleared' = FALSE
  /\ UNCHANGED << phase, props, origin, socketBlocked, hasFetchedLogsRef, socketRef,
                  runs, nRuns, sent,
                  panelVars, serverVars >>

\* The connection fails: readyState becomes closed and the error event fires.
\* onerror only reports it (console.error, toast).
SocketError(s) ==
  /\ sockets[s].state # "closed"
  /\ sockets' = [sockets EXCEPT ![s].state = "closed", ![s].erred = TRUE]
  /\ justCleared' = FALSE
  /\ UNCHANGED << phase, props, origin, history, socketBlocked, hasFetchedLogsRef,
                  socketRef, runs, nRuns, sent,
                  panelVars, serverVars >>

\* The connection ends cleanly (remote close, or closing handshake done).
SocketCloses(s) ==
  /\ sockets[s].state \in {"open", "closing"}
  /\ sockets' = [sockets EXCEPT ![s].state = "closed"]
  /\ justCleared' = FALSE
  /\ UNCHANGED << phase, props, origin, history, socketBlocked, hasFetchedLogsRef,
                  socketRef, runs, nRuns, sent,
                  panelVars, serverVars >>

\* ------------------------------------------------------------------ buffer
\* A clear that keeps the newest entry.
ClearKeepsNewest == IF history = <<>> THEN <<>> ELSE <<history[Len(history)]>>

\* clearLogs: setHistory([])
ClearLogs == <<>>

\* The operator presses the clear button.
Clear ==
  /\ Mounted
  /\ history' = ClearLogs
  /\ justCleared' = TRUE
  /\ UNCHANGED << phase, props, origin, socketBlocked, hasFetchedLogsRef, socketRef,
                  runs, nRuns, sockets, sent,
                  panelVars, serverVars >>

\* ------------------------------------------------------------------- panel
\* A filter predicate that compares without folding case.
MatchesExactCase(output, f) == f = FilterAll \/ Includes(output, f)

\* The predicate of filteredHistory: every entry under 'ALL', else the
\* entries whose lower-cased output includes the lower-cased filter.
MatchesFilter(output, f) ==
  f = FilterAll \/ Includes(ToLowerCase(output), ToLowerCase(f))

\* filteredHistory = history.filter(...): the entries the view renders.
FilteredHistory(h, f) == SelectSeq(h, LAMBDA output : MatchesFilter(output, f))

\* An export of what the view shows.
DownloadView == Join(FilteredHistory(history, filter), <<"\n">>)

\* downloadLogs: the text of the file, history.map(output).join('\n').
DownloadLogs == Join(history, <<"\n">>)

\* The operator presses the download button.
Download ==
  /\ Mounted
  /\ exported' = <<DownloadLogs>>
  /\ justCleared' = FALSE
  /\ UNCHANGED << phase, props, origin, history, socketBlocked, hasFetchedLogsRef,
                  socketRef, runs, nRuns, sockets, sent,
                  filter, input, submits, executes, serverVars >>

\* The operator picks a filter: onValueChange={(value) => setFilter(value)}
SetFilter(f) ==
  /\ Mounted
  /\ filter' = f
  /\ justCleared' = FALSE
  /\ UNCHANGED << phase, props, origin, history, socketBlocked, hasFetchedLogsRef,
                  socketRef, runs, nRuns, sockets, sent,
                  input, submits, executes, exported, serverVars >>

\* The operator edits the command field: onChange={(e) => setInput(e.target.value)}
SetInput(text) ==
  /\ Mounted
  /\ input' = text
  /\ justCleared' = FALSE
  /\ UNCHANGED << phase, props, origin, history, socketBlocked, hasFetchedLogsRef,
                  socketRef, runs, nRuns, sockets, sent,
                  filter, submits, executes, exported, serverVars >>

\* A submit condition that does not trim.
SubmitsUntrimmed == input # <<>> /\ props.serviceName # ""

\* The condition of handleSubmit: input.trim() && serviceName
SubmitsCommand == Trim(input) # <<>> /\ props.serviceName # ""

\* handleSubmit up to `await serviceApi.execute(serviceName, input)`.
Submit ==
  /\ Mounted
  /\ submits < MaxCmds
  /\ submits' = submits + 1
  /\ executes' = IF SubmitsCommand
                 THEN Append(executes, [ serviceName |-> props.serviceName,
                                         command |-> input,
                                         status |-> "pending" ])
                 ELSE executes
  /\ justCleared' = FALSE
  /\ UNCHANGED << phase, props, origin, history, socketBlocked, hasFetchedLogsRef,
                  socketRef, runs, nRuns, sockets, sent,
                  filter, input, exported, serverVars >>

\* A command path that echoes the command into the log buffer.
EchoCommand(i) == Append(history, executes[i].command)

\* The log buffer after command call i has settled: handleSubmit calls no
\* setter but setInput.
HistoryAfterExecute(i) == history

\* serviceApi.execute resolves: setInput('').
ExecuteOk(i) ==
  /\ executes[i].status = "pending"
  /\ executes' = [executes EXCEPT ![i].status = "ok"]
  /\ input' = SetState(input, <<>>)
  /\ history' = SetState(history, HistoryAfterExecute(i))
  /\ justCleared' = FALSE
  /\ UNCHANGED << phase, props, origin, socketBlocked, hasFetchedLogsRef,
                  socketRef, runs, nRuns, sockets, sent,
                  filter, submits, exported, serverVars >>

\* serviceApi.execute rejects: toast.error(commandError).
ExecuteFail(i) ==
  /\ executes[i].status = "pending"
  /\ executes' = [executes EXCEPT ![i].status = "failed"]
  /\ history' = SetState(history, HistoryAfterExecute(i))
  /\ justCleared' = FALSE
  /\ UNCHANGED << phase, props, origin, socketBlocked, hasFetchedLogsRef,
                  socketRef, runs, nRuns, sockets, sent,
                  filter, input, submits, exported, serverVars >>

\* ------------------------------------------------------- server-side api
\* What the upstream answers to a request (or the request fails to complete).
Responses == {"ok", "notOk", "emptyText", "invalidJson", "rejects"}

\* handleResponse: the parsed body, or the error it throws.
HandleResponse(resp) ==
  CASE resp = "ok" -> "resolved"
    [] resp = "notOk" -> "HTTP error"
    [] resp = "emptyText" -> "Empty response received"
    [] resp = "invalidJson" -> "Failed to parse JSON response"
    [] OTHER -> "fetch failed"

\* !cookie.get(name)?.value : the cookie is missing or its value is empty.
Falsy(name) == name \notin DOMAIN jar \/ jar[name] = <<>>

\* A check of the bearer credential alone.
TokenMissing == Falsy("at")

\* if (!accessToken || !address) throw new Error('Unauthorized')
Unauthorized == Falsy("at") \/ Falsy("add")

\* `${address}` : the value of the 'add' cookie as the url template sees it.
Address ==
  IF "add" \in DOMAIN jar THEN jar["add"]
  ELSE <<"u", "n", "d", "e", "f", "i", "n", "e", "d">>

\* serverApiPost / serverApiGet: cookies, the Unauthorized check, the fetch of
\* `${decodeURIComponent(address)}${url}` and handleResponse.
ServerApiCall(call, method, url, resp) ==
  /\ Len(fetched) < MaxCalls
  /\ IF Unauthorized
     THEN /\ apiResult' = [call |-> call, outcome |-> "Unauthorized"]
          /\ UNCHANGED fetched
     ELSE IF ~WellFormed(Address)
     THEN /\ apiResult' = [call |-> call, outcome |-> "URIError"]
          /\ UNCHANGED fetched
     ELSE /\ fetched' = Append(fetched, [ method |-> method,
                                          base |-> DecodeURIComponent(Address),
                                          path |-> url ])
          /\ apiResult' = [call |-> call, outcome |-> HandleResponse(resp)]
  /\ UNCHANGED << jar, consoleVars, panelVars >>

\* serverAuthApi.createTicket: serverApiPost('/api/auth/ticket', { type })
CreateTicket(resp) == ServerApiCall("createTicket", "POST", "/api/auth/ticket", resp)

\* serverAuthApi.getCookies: serverApiGet('/api/auth/getCookies')
GetCookies(resp) == ServerApiCall("getCookies", "GET", "/api/auth/getCookies", resp)

\* ----------------------------------------------------------- specification
Next ==
  \/ Mount
  \/ DepsChange
  \/ Unmount
  \/ Clear
  \/ \E r \in RunIds, tail \in CacheTails : FetchOk(r, tail)
  \/ \E r \in RunIds : FetchFail(r)
  \/ \E r \in RunIds : TicketOk(r)
  \/ \E r \in RunIds : TicketFail(r)
  \/ \E r \in RunIds : CookiesFail(r)
  \/ \E r \in RunIds, c \in Cookies : CookiesMalformed(r, c)
  \/ \E r \in RunIds, c \in Cookies : GuardBlocks(r, c)
  \/ \E r \in RunIds, c \in Cookies : ConstructionThrows(r, c)
  \/ \E r \in RunIds, c \in Cookies : SocketConstructed(r, c)
  \/ \E s \in SocketIds : SocketOpens(s)
  \/ \E s \in SocketIds : ServerSend(s)
  \/ \E s \in SocketIds : Deliver(s)
  \/ \E s \in SocketIds : SocketError(s)
  \/ \E s \in SocketIds : SocketCloses(s)

Spec == Init /\ [][Next]_vars

\* The panel of a console that is streaming: chain 1 has seeded the buffer (a
\* service console; the cached tail is any buffer content) and opened its
\* socket, and no frame has arrived yet.
InitStreaming ==
  /\ phase = "mounted"
  /\ props \in Props
  /\ origin = OriginHttps
  /\ history \in (IF props.type = "service" THEN Buffers ELSE {<<>>})
  /\ socketBlocked = FALSE
  /\ hasFetchedLogsRef = TRUE
  /\ socketRef = 1
  /\ runs = [r \in RunIds |->
               IF r = 1
               THEN [ pc |-> "done",
                      fetch |-> IF props.type = "service" THEN "ok" ELSE "none",
                      connect |-> TRUE,
                      tickets |-> 1,
                      ticket |-> IssuedTicket(1, 1),
                      cookie |-> CookieHttps,
                      guard |-> "allowed",
                      sock |-> 1,
                      outcome |-> "opened" ]
               ELSE IdleRun]
  /\ nRuns = 1
  /\ sockets = << [NewSocket(1, DecodeURIComponent(runs[1].cookie)) EXCEPT !.state = "open"] >>
  /\ sent = 0
  /\ justCleared = FALSE

\* The operator's actions on the panel of a streaming console.
NextPanel ==
  \/ Clear
  \/ Download
  \/ \E f \in Filters : SetFilter(f)
  \/ \E text \in CommandTexts : SetInput(text)
  \/ Submit
  \/ \E i \in DOMAIN executes : ExecuteOk(i)
  \/ \E i \in DOMAIN executes : ExecuteFail(i)

InitOnPanel ==
  /\ InitStreaming
  /\ InitPanel
  /\ InitServer(SessionJar)

SpecPanel == InitOnPanel /\ [][NextPanel]_vars

\* The server-side helper serving requests of a session with any cookies.
InitOnServer ==
  /\ InitConsole
  /\ InitPanel
  /\ \E j \in Jars : InitServer(j)

NextServer ==
  \/ \E resp \in Responses : CreateTicket(resp)
  \/ \E resp \in Responses : GetCookies(resp)

SpecServer == InitOnServer /\ [][NextServer]_vars

\* ================================================================== claims
\* The secure/insecure classification of an address: https is secure,
\* anything else is insecure.
IsSecure(a) == StartsWith(a, Https)

\* The cleanup of the effect run that started chain r has run.
CleanedUp(r) == r < nRuns \/ phase = "unmounted"

IsPrefix(a, b) == Len(a) <= Len(b) /\ SubSeq(b, 1, Len(a)) = a

\* Chain r is between its ticket request and the end of initializeSocket.
InFlight(r) == runs[r].pc \in {"ticket", "cookies"}

\* C1: an attempt whose endpoint address and page origin classify differently
\* (in either direction) ends blocked without constructing a socket, and every
\* socket was constructed by an attempt whose guard check found the two
\* classifications equal.
C1_GuardPrecedesSocket ==
  /\ \A r \in RunIds :
       ( /\ runs[r].cookie # <<>>
         /\ IsSecure(DecodeURIComponent(runs[r].cookie)) # IsSecure(origin) )
       => /\ runs[r].outcome = "blocked"
          /\ runs[r].sock = 0
          /\ \A s \in SocketIds : sockets[s].run # r
  /\ \A s \in SocketIds :
       LET r == sockets[s].run IN
       /\ runs[r].guard = "allowed"
       /\ runs[r].outcome = "opened"
       /\ runs[r].sock = s
       /\ IsSecure(DecodeURIComponent(runs[r].cookie)) = IsSecure(origin)
       /\ (sockets[s].url.protocol = "wss") = IsSecure(origin)

\* C1 witness: an http endpoint on an https page was blocked, no socket exists.
C1_Witness ==
  /\ origin = OriginHttps
  /\ \E r \in RunIds : runs[r].cookie = CookieHttp /\ runs[r].outcome = "blocked"
  /\ sockets = <<>>

\* C2: after the component has unmounted (the cleanup has run), no socket is
\* constructed, whatever attempt was in flight at that time.
C2_NoSocketAfterDisposal ==
  [][phase = "unmounted" => Len(sockets') = Len(sockets)]_vars

\* C3: once the cleanup of an effect run has run, no message of a socket that
\* this run's chain constructed is appended to the buffer.
C3_NoAppendAfterDispose ==
  [][\A s \in SocketIds :
       (Deliver(s) /\ history' # history) => ~CleanedUp(sockets[s].run)]_vars

\* C4: an initializeSocket call that starts while another chain's attempt is
\* still in flight requests no ticket.
C4_ReentrantConnectIsNoOp ==
  [][\A r \in RunIds :
       ( /\ ~runs[r].connect
         /\ runs'[r].connect
         /\ \E q \in RunIds \ {r} : InFlight(q) )
       => runs'[r].tickets = 0]_vars

\* C5: whenever initializeSocket is invoked, no cached-tail request is
\* outstanding.
C5_SeedBeforeConnect ==
  [][\A r \in RunIds :
       (~runs[r].connect /\ runs'[r].connect)
       => \A q \in RunIds : runs'[q].pc # "fetch"]_vars

C7_AppendOrder ==
  [][/\ \A s \in SocketIds :
          (Deliver(s) /\ sockets[s].state = "open" /\ Mounted)
          => history' = Append(history, Head(sockets[s].queue))
     /\ Clear \/ IsPrefix(history, history')]_vars

\* C8: every socket carries the ticket its own chain was issued, a chain
\* requests at most one ticket, and no two sockets carry the same ticket.
C8_TicketPerAttempt ==
  /\ \A r \in RunIds : runs[r].tickets <= 1
  /\ \A s \in SocketIds :
       /\ sockets[s].url.ticket # <<>>
       /\ sockets[s].url.ticket = runs[sockets[s].run].ticket
       /\ sockets[s].url.ticket = IssuedTicket(sockets[s].run, 1)
  /\ \A s, t \in SocketIds : s # t => sockets[s].url.ticket # sockets[t].url.ticket

\* C8 witness: the second chain constructed a socket after the first chain had
\* been issued a ticket of its own.
C8_Witness ==
  \E s \in SocketIds :
    /\ sockets[s].run = 2
    /\ runs[1].ticket # <<>>
    /\ runs[1].sock = 0

\* C9: after every cleanup, no socket the console has constructed is left
\* connecting or open.
C9_CleanupClosesEverySocket ==
  [][(Unmount \/ DepsChange)
       => \A s \in SocketIds : sockets'[s].state \in {"closing", "closed"}]_vars

\* C10: right after a clear the buffer is empty.
C10_ClearEmpties == justCleared => history = <<>>

\* C10 witness: the buffer was just cleared while a frame pushed earlier is
\* still queued on an open socket.
C10_Witness ==
  /\ justCleared
  /\ history = <<>>
  /\ \E s \in SocketIds : sockets[s].state = "open" /\ sockets[s].queue # <<>>

\* The lines of a text: the pieces between its line feeds.
RECURSIVE LinesOf(_)
LinesOf(text) ==
  IF \E k \in DOMAIN text : text[k] = "\n"
  THEN LET k == CHOOSE k \in DOMAIN text :
                  text[k] = "\n" /\ \A j \in 1..(k - 1) : text[j] # "\n"
       IN <<SubSeq(text, 1, k - 1)>> \o LinesOf(SubSeq(text, k + 1, Len(text)))
  ELSE <<text>>

\* C11: the export is the complete unfiltered buffer, one line per entry in
\* buffer order, whatever filter is active (the lines of the file just
\* produced are exactly the stored entries, and an empty buffer gives an
\* empty file), and changing the filter never alters the stored entries.
C11_ExportIsWholeBuffer ==
  [][ /\ (exported' # exported) =>
           /\ Len(exported') = 1
           /\ IF history = <<>>
              THEN exported'[1] = <<>>
              ELSE LinesOf(exported'[1]) = history
      /\ (filter' # filter) => (history' = history) ]_vars

\* A file of two lines was produced while the view hides one of them.
C11_Witness ==
  /\ exported # <<>>
  /\ filter # FilterAll
  /\ Len(history) = 2
  /\ Len(FilteredHistory(history, filter)) = 1
  /\ LinesOf(exported[1]) = history

\* The two characters are the same letter, in either case, or equal.
SameLetter(a, b) ==
  a = b \/ \E i \in 1..26 : {a, b} = {UpperCase[i], LowerCase[i]}

\* The text contains the level word, compared letter by letter without case.
ContainsLevel(text, level) ==
  \E off \in 0..(Len(text) - Len(level)) :
     \A k \in 1..Len(level) : SameLetter(text[off + k], level[k])

\* The positions of the buffer a filter value selects.
Selected(f) ==
  {i \in DOMAIN history : f = FilterAll \/ ContainsLevel(history[i], f)}

\* C12: the view under a level filter is exactly the subsequence of the
\* buffer made of the entries whose text contains the level, compared
\* without case, in buffer order; the view under 'ALL' is the whole buffer.
C12_ViewIsMatchingSubsequence ==
  LET view == FilteredHistory(history, filter)
      sel == Selected(filter)
  IN /\ Len(view) = Cardinality(sel)
     /\ \A i \in sel : view[Cardinality({j \in sel : j <= i})] = history[i]
     /\ (filter = FilterAll) => (view = history)

\* The ERROR filter shows a mixed-case entry and hides another entry.
C12_Witness ==
  /\ filter = FilterError
  /\ Len(history) = 2
  /\ FilteredHistory(history, filter) = <<FrameText(2)>>

\* C13: no command request is issued for an empty or whitespace-only text:
\* every request issued carries a text with a character that is not white
\* space, and a submit adds a request only from such an input.
C13_BlankInputSendsNothing ==
  /\ \A i \in DOMAIN executes :
        \E k \in DOMAIN executes[i].command : executes[i].command[k] \notin WhiteSpace
  /\ Len(executes) <= submits

\* A whitespace-only text was submitted on a service console: no request.
C13_Witness ==
  /\ props.serviceName # ""
  /\ submits > 0
  /\ executes = <<>>
  /\ input # <<>>
  /\ \A k \in DOMAIN input : input[k] \in WhiteSpace

\* The session lacks the bearer credential or the endpoint address.
CredentialOrAddressAbsent ==
  \E n \in CookieNames : n \notin DOMAIN jar \/ jar[n] = <<>>

\* C14: a ticket request of a session that lacks the bearer credential or
\* the endpoint address fails with Unauthorized and performs no network
\* request (and so does every other call of the helper).
C14_UnauthorizedWithoutRequest ==
  CredentialOrAddressAbsent =>
    /\ fetched = <<>>
    /\ apiResult.outcome \in {"none", "Unauthorized"}

\* A ticket request with a credential but no address has failed.
C14_Witness ==
  /\ "at" \in DOMAIN jar /\ jar["at"] = Token
  /\ "add" \notin DOMAIN jar
  /\ apiResult = [call |-> "createTicket", outcome |-> "Unauthorized"]
  /\ fetched = <<>>

\* C15: an attempt whose ticket request failed ends errored, not blocked, and
\* without a socket, and the protocol-mismatch alert is up only if the guard
\* of some attempt found a mismatch.
C15_BlockedOnlyByGuard ==
  /\ \A r \in RunIds :
       (runs[r].outcome = "errored" /\ runs[r].ticket = <<>>)
       => runs[r].guard # "blocked" /\ runs[r].sock = 0
  /\ socketBlocked => \E r \in RunIds : runs[r].guard = "blocked"

\* The attempt of chain q has ended blocked or errored: by the guard, by a
\* failure before the socket existed, or by an error event of its socket.
EndedBlockedOrErrored(q) ==
  /\ runs[q].pc = "done"
  /\ \/ runs[q].outcome \in {"blocked", "errored"}
     \/ runs[q].outcome = "opened" /\ sockets[runs[q].sock].erred

\* C16: an initializeSocket call made when every earlier attempt has ended
\* blocked or errored starts a new attempt: it requests a ticket.
C16_ConnectAfterFailureRetries ==
  [][\A r \in RunIds :
       ( /\ ~runs[r].connect
         /\ runs'[r].connect
         /\ \E q \in RunIds : runs[q].connect
         /\ \A q \in RunIds : runs[q].connect => EndedBlockedOrErrored(q) )
       => runs'[r].pc = "ticket" /\ runs'[r].tickets = 1]_vars

\* The entry is a frame received from a socket.
IsLiveLine(line) == \E k \in 1..MaxSent : line = FrameText(k)

\* C17: the cached tail replaces the buffer at most once, and at that step
\* the buffer holds no live line (a seed discards no live line).
C17_SeedOnceBeforeLive ==
  [][\A r \in RunIds :
       (runs[r].pc = "fetch" /\ runs'[r].fetch = "ok")
       => /\ \A q \in RunIds : runs[q].fetch # "ok"
          /\ \A i \in DOMAIN history : ~IsLiveLine(history[i])]_vars

\* C18: a step of the command path (a submit, a command call settling)
\* leaves the log buffer, the sockets, the socket handle, the attempts and
\* the mismatch alert as they are.
C18_CommandLeavesConnectionAlone ==
  [][(submits' # submits \/ executes' # executes)
       => UNCHANGED << history, sockets, socketRef, runs, nRuns, socketBlocked,
                       hasFetchedLogsRef, phase >>]_vars

\* One command has succeeded and one has failed on a streaming console whose
\* buffer holds entries.
C18_Witness ==
  /\ \E i \in DOMAIN executes : executes[i].status = "ok"
  /\ \E i \in DOMAIN executes : executes[i].status = "failed"
  /\ history # <<>>
  /\ sockets[socketRef].state = "open"

\* C19: at most one socket of the console is open at a time (every socket
\* carries the message handler that appends to the buffer).
C19_AtMostOneLiveSocket ==
  Cardinality({s \in SocketIds : sockets[s].state = "open"}) <= 1

\* C20: once socketRef holds a socket it holds one ever after, and every
\* initializeSocket call made from then on returns at once: no ticket, no
\* socket, whatever the state of the stored socket.
C20_HandleNeverReset ==
  /\ [](\A r \in RunIds :
          runs[r].outcome = "noop" => runs[r].tickets = 0 /\ runs[r].sock = 0)
  /\ [][socketRef # 0 =>
          /\ socketRef' # 0
          /\ \A r \in RunIds :
               (~runs[r].connect /\ runs'[r].connect)
               => /\ runs'[r].outcome = "noop"
                  /\ runs'[r].pc = "done"
                  /\ runs'[r].tickets = 0
                  /\ Len(sockets') = Len(sockets)]_vars

\* A call returned at once while the stored socket is closed after an error
\* event, and the console is still mounted.
C20_Witness ==
  /\ Mounted
  /\ socketRef # 0
  /\ sockets[socketRef].state = "closed"
  /\ sockets[socketRef].erred
  /\ \E r \in RunIds : runs[r].outcome = "noop"

====
